---- MODULE Spec2Model ----
(***************************************************************************)
(* Bounded top-K selectors of the priority_container crate:                *)
(*   PrioContainer                 (src/src/lib.rs)                        *)
(*   StablePrioContainer[Max]      (src/src/stable/mod.rs, stable/max.rs)  *)
(*   UniquePrioContainer[Max]      (src/src/unique/mod.rs, unique/max.rs)  *)
(*   StableUniquePrioContainer[Max](src/src/unique/stable.rs,              *)
(*                                  unique/stable_max.rs)                  *)
(* and the draining iterators of src/src/iter.rs.                          *)
(*                                                                         *)
(* An item of type T is a record [ty, key, val].  Two item types are       *)
(* modelled.  "KV" is a T whose Eq and Hash go by key (the logical key)    *)
(* and whose Ord goes by val: the kind of T for which replace_eq can find  *)
(* a resident that is equal to and greater than the new item.              *)
(* "UniqueItem" is the type of tests/unique.rs: Hash by its field item     *)
(* (key here), Eq and Ord by val.  The binary heap is modelled as the      *)
(* array std::collections::BinaryHeap keeps, with its sift operations, so  *)
(* that the choice among items that compare Equal is the one the code      *)
(* makes.  The counter total_pushed and the sequence numbers are 64-bit    *)
(* usize values kept as four 16-bit limbs.                                 *)
(***************************************************************************)
EXTENDS Integers, Sequences, FiniteSets, TLC

\* ---------------------------------------------------------------- bounds
MaxKey == 2
MaxVal == 3
MaxCap == 3
MaxOps == 4
MaxDelta == 1

Keys == 1..MaxKey
Vals == 1..MaxVal
ItemTypes == {"KV", "UniqueItem"}
ItemsOf(t) == [ty : {t}, key : Keys, val : Vals]
Items == UNION {ItemsOf(t) : t \in ItemTypes}
Caps == 0..MaxCap
AllocSizes == {0, 1, MaxCap + 1}
Kinds == {"plain", "stable", "unique", "stable_unique"}

\* ------------------------------------------------------- orders on items
\* Ordering values as in std::cmp::Ordering: Less = -1, Equal = 0, Greater = 1
CmpNat(a, b) == IF a < b THEN -1 ELSE IF a > b THEN 1 ELSE 0

\* ---------------------------------------------------------- usize counter
\* The counter total_pushed and the sequence numbers are usize values of a
\* 64-bit target: four limbs of 16 bits, the most significant first.
\* the usize of a number below 2^16
Usize(n) == <<0, 0, 0, n>>

\* usize::MAX = 2^64 - 1
UsizeMax == <<65535, 65535, 65535, 65535>>

\* a + b limb by limb: the sum modulo 2^64 and the carry out of bit 63
AddLimbs(a, b) ==
    LET s4 == a[4] + b[4]
        s3 == a[3] + b[3] + (s4 \div 65536)
        s2 == a[2] + b[2] + (s3 \div 65536)
        s1 == a[1] + b[1] + (s2 \div 65536)
    IN  [sum |-> <<s1 % 65536, s2 % 65536, s3 % 65536, s4 % 65536>>,
         carry |-> s1 \div 65536]

\* a + b does not fit in usize
AddOverflows(a, b) == AddLimbs(a, b).carry > 0

\* a + b as a release build computes it (wrapping)
WrappingAdd(a, b) == AddLimbs(a, b).sum

\* usize::cmp
RECURSIVE CmpUsizeFrom(_, _, _)
CmpUsizeFrom(a, b, i) ==
    IF i > 4 THEN 0
    ELSE IF a[i] # b[i] THEN CmpNat(a[i], b[i])
    ELSE CmpUsizeFrom(a, b, i + 1)

CmpUsize(a, b) == CmpUsizeFrom(a, b, 1)

\* T::cmp: the order of the payload goes by val
CmpT(a, b) == CmpNat(a.val, b.val)

\* PartialEq for UniqueItem: self.val == other.val
EqUniqueItem(a, b) == a.val = b.val

\* T::eq: by val for UniqueItem, by the logical key for KV
EqT(a, b) == IF a.ty = "UniqueItem" THEN EqUniqueItem(a, b) ELSE a.key = b.key

\* T::hash gives the same value for a and b: UniqueItem hashes its field
\* item, KV hashes its key
SameHash(a, b) == a.key = b.key

\* a Reverse that does not invert the order
ReverseCmpNotInverted(a, b) == CmpT(a, b)

\* std::cmp::Reverse<T>::cmp, the wrapper the Max containers store
ReverseCmp(a, b) == CmpT(b, a)

\* the order of the payload as stored: T, or Reverse<T> when rev
BaseCmp(rev, a, b) == IF rev THEN ReverseCmp(a, b) ELSE CmpT(a, b)

\* HeapItem::new(item, counter)
HeapItem(item, counter) == [inner |-> item, counter |-> counter]

\* HeapItem::cmp: payload order first; on a tie the smaller counter is the
\* greater element
HeapItemCmp(rev, a, b) ==
    LET c == BaseCmp(rev, a.inner, b.inner)
    IN  IF c = 0 THEN CmpUsize(b.counter, a.counter) ELSE c

\* An order o is [stable, rev]: the element type of the heap is
\* T, Reverse<T>, HeapItem<T> or HeapItem<Reverse<T>>
Ord(stable, rev) == [stable |-> stable, rev |-> rev]
Cmp(o, a, b) == IF o.stable THEN HeapItemCmp(o.rev, a, b) ELSE BaseCmp(o.rev, a, b)
Le(o, a, b) == Cmp(o, a, b) <= 0
Lt(o, a, b) == Cmp(o, a, b) < 0
Ge(o, a, b) == Cmp(o, a, b) >= 0
Gt(o, a, b) == Cmp(o, a, b) > 0

\* the payload of a stored element (HeapItem::as_ref / into_inner, Reverse.0)
Payload(o, e) == IF o.stable THEN e.inner ELSE e

\* ------------------------------------------- std::collections::BinaryHeap
\* positions are 0-based as in the code; d[p + 1] is the element at p
RECURSIVE SiftUpHole(_, _, _, _, _)
SiftUpHole(o, d, elt, start, pos) ==
    IF pos > start
    THEN LET parent == (pos - 1) \div 2
         IN  IF Le(o, elt, d[parent + 1])
             THEN [d EXCEPT ![pos + 1] = elt]
             ELSE SiftUpHole(o, [d EXCEPT ![pos + 1] = d[parent + 1]], elt, start, parent)
    ELSE [d EXCEPT ![pos + 1] = elt]

\* BinaryHeap::sift_up(start, pos)
SiftUp(o, d, start, pos) == SiftUpHole(o, d, d[pos + 1], start, pos)

RECURSIVE SiftDownHole(_, _, _, _, _)
SiftDownHole(o, d, elt, pos, end) ==
    LET child == 2 * pos + 1
    IN  IF end >= 2 /\ child <= end - 2
        THEN LET c == IF Le(o, d[child + 1], d[child + 2]) THEN child + 1 ELSE child
             IN  IF Ge(o, elt, d[c + 1])
                 THEN [d EXCEPT ![pos + 1] = elt]
                 ELSE SiftDownHole(o, [d EXCEPT ![pos + 1] = d[c + 1]], elt, c, end)
        ELSE IF child = end - 1 /\ Lt(o, elt, d[child + 1])
             THEN [d EXCEPT ![pos + 1] = d[child + 1], ![child + 1] = elt]
             ELSE [d EXCEPT ![pos + 1] = elt]

\* BinaryHeap::sift_down(pos)
SiftDown(o, d, pos) == SiftDownHole(o, d, d[pos + 1], pos, Len(d))

RECURSIVE ToBottomHole(_, _, _, _, _)
ToBottomHole(o, d, elt, pos, end) ==
    LET child == 2 * pos + 1
    IN  IF end >= 2 /\ child <= end - 2
        THEN LET c == IF Le(o, d[child + 1], d[child + 2]) THEN child + 1 ELSE child
             IN  ToBottomHole(o, [d EXCEPT ![pos + 1] = d[c + 1]], elt, c, end)
        ELSE IF child = end - 1
             THEN [d |-> [d EXCEPT ![pos + 1] = d[child + 1], ![child + 1] = elt],
                   pos |-> child]
             ELSE [d |-> [d EXCEPT ![pos + 1] = elt], pos |-> pos]

\* BinaryHeap::sift_down_to_bottom(pos)
SiftDownToBottom(o, d, pos) ==
    LET r == ToBottomHole(o, d, d[pos + 1], pos, Len(d))
    IN  SiftUp(o, r.d, pos, r.pos)

\* a push that leaves the new element at the end
HeapPushUnsifted(o, d, elt) == Append(d, elt)

\* BinaryHeap::push
HeapPush(o, d, elt) == SiftUp(o, Append(d, elt), 0, Len(d))

\* BinaryHeap::peek
HeapPeek(d) == d[1]

\* a replacement that overwrites the last element instead of the root
HeapReplaceLast(o, d, elt) == SiftUp(o, [d EXCEPT ![Len(d)] = elt], 0, Len(d) - 1)

\* a root replacement that does not restore the heap
HeapReplaceTopUnsifted(o, d, elt) == [d EXCEPT ![1] = elt]

\* *heap.peek_mut() = elt: the root is overwritten and sifted down
HeapReplaceTop(o, d, elt) == SiftDown(o, [d EXCEPT ![1] = elt], 0)

\* a pop that does not restore the heap
HeapPopUnsifted(o, d) ==
    LET n == Len(d)
        last == d[n]
        rest == SubSeq(d, 1, n - 1)
    IN  IF rest = <<>>
        THEN [item |-> last, rest |-> rest]
        ELSE [item |-> rest[1], rest |-> [rest EXCEPT ![1] = last]]

\* BinaryHeap::pop: [item, rest]
HeapPop(o, d) ==
    LET n == Len(d)
        last == d[n]
        rest == SubSeq(d, 1, n - 1)
    IN  IF rest = <<>>
        THEN [item |-> last, rest |-> rest]
        ELSE [item |-> rest[1],
              rest |-> SiftDownToBottom(o, [rest EXCEPT ![1] = last], 0)]

RECURSIVE RebuildFrom(_, _, _)
RebuildFrom(o, d, n) ==
    IF n > 0 THEN RebuildFrom(o, SiftDown(o, d, n - 1), n - 1) ELSE d

\* BinaryHeap::extend(Vec) on a heap that drain() has emptied: the vector
\* becomes the data and the heap is rebuilt
HeapExtendEmpty(o, add) == RebuildFrom(o, add, Len(add) \div 2)

\* Vec growth (RawVec::grow_amortized) when a push finds len = capacity
MinNonZeroCap == 4
MaxOf2(a, b) == IF a >= b THEN a ELSE b
AllocAfterPush(alloc, len) ==
    IF len < alloc THEN alloc
    ELSE MaxOf2(MinNonZeroCap, MaxOf2(2 * alloc, len + 1))

\* sequence helpers
RECURSIVE SelectSeqBy(_, _)
SelectSeqBy(d, keep) ==
    IF d = <<>> THEN <<>>
    ELSE IF Head(d) \in keep THEN <<Head(d)>> \o SelectSeqBy(Tail(d), keep)
         ELSE SelectSeqBy(Tail(d), keep)

Range(d) == {d[i] : i \in 1..Len(d)}


\* ------------------------------------------------------------ constructors
\* a selector: the heap array, its allocated capacity (Vec::capacity), the
\* membership index, the counter and the capacity field
Selector(alloc, capacity) ==
    [heap |-> <<>>, alloc |-> alloc, hash |-> {}, total_pushed |-> Usize(0),
     capacity |-> capacity]

Built(s) == [status |-> "ok", sel |-> s]
Panicked(capacity) == [status |-> "panicked", sel |-> Selector(0, capacity)]

\* PrioContainer::new
PrioContainerNew(capacity) ==
    IF capacity = 0 THEN Panicked(capacity)
    ELSE Built(Selector(capacity, capacity))

\* StablePrioContainer::new
StableNew(capacity) ==
    IF ~(capacity > 0) THEN Panicked(capacity)
    ELSE Built(Selector(0, capacity))

\* StablePrioContainer::new_allocated
StableNewAllocated(capacity, alloc_size) ==
    IF ~(capacity > 0) THEN Panicked(capacity)
    ELSE Built(Selector(IF alloc_size < capacity THEN alloc_size ELSE capacity,
                        capacity))

\* UniquePrioContainer::new
UniqueNew(capacity) == Built(Selector(0, capacity))

\* UniquePrioContainer::new_allocated
UniqueNewAllocated(capacity) == Built(Selector(capacity, capacity))

\* StableUniquePrioContainer::new
StableUniqueNew(capacity) == StableNew(capacity)

\* StableUniquePrioContainer::new_allocated
StableUniqueNewAllocated(capacity, alloc_size) ==
    StableNewAllocated(capacity, alloc_size)

\* the constructor calls a kind of selector offers; the Max types delegate
\* to the constructor of the type they wrap
Ctors(k) ==
    IF k = "plain" THEN {[name |-> "new", alloc_size |-> 0]}
    ELSE IF k = "unique"
    THEN {[name |-> "new", alloc_size |-> 0], [name |-> "new_allocated", alloc_size |-> 0]}
    ELSE {[name |-> "new", alloc_size |-> 0]}
         \cup {[name |-> "new_allocated", alloc_size |-> a] : a \in AllocSizes}

Construct(k, c, capacity) ==
    CASE k = "plain" -> PrioContainerNew(capacity)
      [] k = "stable" ->
            IF c.name = "new" THEN StableNew(capacity)
            ELSE StableNewAllocated(capacity, c.alloc_size)
      [] k = "unique" ->
            IF c.name = "new" THEN UniqueNew(capacity)
            ELSE UniqueNewAllocated(capacity)
      [] k = "stable_unique" ->
            IF c.name = "new" THEN StableUniqueNew(capacity)
            ELSE StableUniqueNewAllocated(capacity, c.alloc_size)

\* ------------------------------------------------------------------ insert
\* an outcome of a call: the selector afterwards, the value returned, the
\* status ("ok"; "ub": undefined behaviour; "overflow": the panic of a
\* build with overflow checks), what the index answered ("hit", "miss", or
\* "none" where no index is asked) and whether the counter wrapped
Outcome(s, ret, status, hit, wrapped) ==
    [sel |-> s, ret |-> ret, status |-> status, hit |-> hit, wrapped |-> wrapped]

\* self.total_pushed += n on selector s: the sum fits, or the build
\* panics on overflow and the selector stays as it is, or it wraps and the
\* call goes on
AddToCounter(s, n) ==
    LET added == [s EXCEPT !.total_pushed = WrappingAdd(s.total_pushed, n)]
    IN  IF AddOverflows(s.total_pushed, n)
        THEN {[sel |-> s, panic |-> TRUE, wrapped |-> FALSE],
              [sel |-> added, panic |-> FALSE, wrapped |-> TRUE]}
        ELSE {[sel |-> added, panic |-> FALSE, wrapped |-> FALSE]}

\* the outcome of a call that ends in the overflow panic c
OverflowPanic(c, hit) == Outcome(c.sel, "panic", "overflow", hit, FALSE)

\* the room test off by one
HasRoomOffByOne(s) == Len(s.heap) <= s.capacity

\* self.heap.len() < self.capacity
HasRoom(s) == Len(s.heap) < s.capacity

\* the replacement test with the comparison turned round
PlainReplacesFlipped(o, min_item, item) == Lt(o, min_item, item)

\* *min_item > item in PrioContainer::insert
PlainReplaces(o, min_item, item) == Gt(o, min_item, item)

\* PrioContainer::insert (returns nothing)
PlainInsert(o, s, item) ==
    IF HasRoom(s)
    THEN {Outcome([s EXCEPT !.heap = HeapPush(o, s.heap, item),
                            !.alloc = AllocAfterPush(s.alloc, Len(s.heap))],
                  "unit", "ok", "none", FALSE)}
    ELSE IF PlainReplaces(o, HeapPeek(s.heap), item)
         THEN {Outcome([s EXCEPT !.heap = HeapReplaceTop(o, s.heap, item)],
                       "unit", "ok", "none", FALSE)}
         ELSE {Outcome(s, "unit", "ok", "none", FALSE)}

\* the rejection test with the comparison turned round
StableRejectsFlipped(o, min_item, new_item) == Ge(o, min_item, new_item)

\* *min_item <= new_item in StablePrioContainer::insert
StableRejects(o, min_item, new_item) == Le(o, min_item, new_item)

\* StablePrioContainer::insert after self.total_pushed += 1 gave s1
StableInsertCounted(o, s1, item, hit, wrapped) ==
    LET new_item == HeapItem(item, s1.total_pushed)
    IN  IF HasRoom(s1)
        THEN {Outcome([s1 EXCEPT !.heap = HeapPush(o, s1.heap, new_item),
                                 !.alloc = AllocAfterPush(s1.alloc, Len(s1.heap))],
                      "true", "ok", hit, wrapped)}
        ELSE IF StableRejects(o, HeapPeek(s1.heap), new_item)
             THEN {Outcome(s1, "false", "ok", hit, wrapped)}
             ELSE {Outcome([s1 EXCEPT !.heap = HeapReplaceTop(o, s1.heap, new_item)],
                           "true", "ok", hit, wrapped)}

\* StablePrioContainer::insert, called with the index answer hit of the
\* type that wraps it ("none" when called directly)
StableInsertFrom(o, s, item, hit) ==
    UNION {IF c.panic THEN {OverflowPanic(c, hit)}
           ELSE StableInsertCounted(o, c.sel, item, hit, c.wrapped) :
           c \in AddToCounter(s, Usize(1))}

StableInsert(o, s, item) == StableInsertFrom(o, s, item, "none")

\* an index that forgets the keys that are not resident
HashContainsResident(s, item) ==
    {\E e \in Range(s.heap) : EqT(IF "inner" \in DOMAIN e THEN e.inner ELSE e, item)}

\* an index that never finds a key
HashContainsNever(s, item) == {FALSE}

\* self.hash.contains(&item): the values the call can return.  The index
\* finds an element that is == item and has the hash of item; an element
\* that is == item with another hash is found only when the two hashes
\* fall into the same probe group, which differs from run to run
HashContains(s, item) ==
    LET must == \E h \in s.hash : SameHash(h, item) /\ EqT(h, item)
        may == \E h \in s.hash : EqT(h, item)
    IN  {b \in BOOLEAN : (b => may) /\ (~b => ~must)}

\* a duplicate test that ignores the order
AnyDuplicate(b, i, item) == EqT(i, item)

\* *i == item && item < *i in replace_eq: resident i is equal to item
\* and item is strictly less under the order b of the payload
BetterDuplicate(b, i, item) == EqT(i, item) /\ Lt(b, item, i)

\* a replace_eq that never replaces
UniqueReplaceEqNever(o, s, item) == s

\* UniquePrioContainer::replace_eq
UniqueReplaceEq(o, s, item) ==
    LET need_replace ==
            \E i \in 1..Len(s.heap) : BetterDuplicate(o, s.heap[i], item)
        add == SelectSeqBy(s.heap, {e \in Range(s.heap) : ~EqT(e, item)})
    IN  IF need_replace
        THEN [s EXCEPT !.heap = HeapPush(o, HeapExtendEmpty(o, add), item)]
        ELSE s

\* UniquePrioContainer::insert when the index does not hold the item; with
\* capacity 0 the unchecked peek reads an empty heap, which is undefined
\* behaviour: the call may return anything
UniqueInsertNew(o, s, item) ==
    LET s1 == [s EXCEPT !.hash = s.hash \cup {item}]
        counted(s2, ret) ==
            {IF c.panic THEN OverflowPanic(c, "miss")
             ELSE Outcome(c.sel, ret, "ok", "miss", c.wrapped) :
             c \in AddToCounter(s2, Usize(1))}
    IN  IF HasRoom(s1)
        THEN counted([s1 EXCEPT !.heap = HeapPush(o, s.heap, item),
                                !.alloc = AllocAfterPush(s.alloc, Len(s.heap))],
                     "true")
        ELSE IF s.heap = <<>>
        THEN {Outcome([s1 EXCEPT !.total_pushed = WrappingAdd(s.total_pushed, Usize(1))],
                      r, "ub", "miss", FALSE) : r \in {"true", "false"}}
        ELSE IF Le(o, HeapPeek(s.heap), item)
        THEN counted(s1, "false")
        ELSE counted([s1 EXCEPT !.heap = HeapReplaceTop(o, s.heap, item)], "true")

\* UniquePrioContainer::insert
UniqueInsert(o, s, item) ==
    UNION {IF found
           THEN {Outcome(UniqueReplaceEq(o, s, item), "false", "ok", "hit", FALSE)}
           ELSE UniqueInsertNew(o, s, item) : found \in HashContains(s, item)}

\* a replace_eq that gives the replacing item a new sequence number
StableUniqueReplaceEqNewCounter(o, s, item) ==
    LET b == Ord(FALSE, o.rev)
        found == {i \in 1..Len(s.heap) : BetterDuplicate(b, s.heap[i].inner, item)}
        add == SelectSeqBy(s.heap, {e \in Range(s.heap) : ~EqT(e.inner, item)})
    IN  IF found # {}
        THEN [s EXCEPT !.heap = HeapPush(o, HeapExtendEmpty(o, add),
                                         HeapItem(item, WrappingAdd(s.total_pushed, Usize(1))))]
        ELSE s

\* StableUniquePrioContainer::replace_eq
StableUniqueReplaceEq(o, s, item) ==
    LET b == Ord(FALSE, o.rev)
        found == {i \in 1..Len(s.heap) : BetterDuplicate(b, s.heap[i].inner, item)}
        first == CHOOSE i \in found : \A j \in found : i <= j
        old_counter == s.heap[first].counter
        add == SelectSeqBy(s.heap, {e \in Range(s.heap) : ~EqT(e.inner, item)})
    IN  IF found # {}
        THEN [s EXCEPT !.heap = HeapPush(o, HeapExtendEmpty(o, add),
                                         HeapItem(item, old_counter))]
        ELSE s

\* StableUniquePrioContainer::insert
StableUniqueInsert(o, s, item) ==
    UNION {IF found
           THEN {Outcome(StableUniqueReplaceEq(o, s, item), "false", "ok", "hit", FALSE)}
           ELSE StableInsertFrom(o, [s EXCEPT !.hash = s.hash \cup {item}], item, "miss")
           : found \in HashContains(s, item)}

\* the order of the heap of a selector of kind k; mx: a Max type, which
\* wraps every item in Reverse before handing it to the type it wraps
OrdOf(k, mx) == Ord(k \in {"stable", "stable_unique"}, mx)
IsUnique(k) == k \in {"unique", "stable_unique"}
IsStable(k) == k \in {"stable", "stable_unique"}

InsertOutcomes(k, mx, s, item) ==
    CASE k = "plain" -> PlainInsert(OrdOf(k, mx), s, item)
      [] k = "stable" -> StableInsert(OrdOf(k, mx), s, item)
      [] k = "unique" -> UniqueInsert(OrdOf(k, mx), s, item)
      [] k = "stable_unique" -> StableUniqueInsert(OrdOf(k, mx), s, item)

\* StablePrioContainer::inc_push: self.total_pushed += delta
IncPushed(s, delta) ==
    {IF c.panic THEN OverflowPanic(c, "none")
     ELSE Outcome(c.sel, "unit", "ok", "none", c.wrapped) :
     c \in AddToCounter(s, delta)}

\* the types that offer inc_push
HasIncPush(k, mx) == (k = "stable" /\ ~mx) \/ (k = "stable_unique" /\ mx)

\* ------------------------------------------------------------ observers
SelLen(s) == Len(s.heap)
SelIsEmpty(s) == SelLen(s) = 0

\* capacity(): PrioContainer returns the capacity field, the other types
\* return the capacity of the heap's allocation
SelCapacity(k, s) == IF k = "plain" THEN s.capacity ELSE s.alloc

SelTotalPushed(s) == s.total_pushed

\* a size_hint that counts one too many
SizeHintOffByOne(s) == Len(s.heap) + 1

\* Iterator::size_hint of the heap iterators: (exact, Some(exact))
SizeHint(s) == Len(s.heap)

\* a membership test that asks the index instead of the heap
SelContainsIndex(k, s, item) == \E h \in s.hash : EqT(h, item)

\* contains(&item)
SelContains(k, s, item) ==
    \E i \in 1..Len(s.heap) : EqT(Payload(OrdOf(k, FALSE), s.heap[i]), item)

\* ------------------------------------------------------------- the system
VARIABLES status, kind, max, ty, ctor, sel, hist, out, iterRet

vars == <<status, kind, max, ty, ctor, sel, hist, out, iterRet>>

NoItem == [ty |-> "none", key |-> 0, val |-> 0]

\* a call as the history keeps it: the operation, its arguments, the value
\* returned, what the index answered and whether the counter wrapped
Call(op, item, delta, r) ==
    [op |-> op, item |-> item, delta |-> delta, ret |-> r.ret, hit |-> r.hit,
     wrapped |-> r.wrapped]

\* the item types a kind of selector is used with: UniqueItem is the
\* item of the unique selectors in tests/unique.rs
TypesOf(k) == IF k \in {"unique", "stable_unique"} THEN ItemTypes ELSE {"KV"}

\* the arguments inc_push is called with: small steps and the step that
\* reaches the end of usize
Deltas == {Usize(d) : d \in 1..MaxDelta} \cup {UsizeMax}

Init ==
    \E k \in Kinds, mx \in BOOLEAN, capacity \in Caps :
      \E c \in Ctors(k), t \in TypesOf(k) :
        LET b == Construct(k, c, capacity)
        IN  /\ kind = k
            /\ max = mx
            /\ ty = t
            /\ ctor = c
            /\ status = b.status
            /\ sel = b.sel
            /\ hist = <<>>
            /\ out = <<>>
            /\ iterRet = "none"

\* insert(item)
Insert ==
    /\ status = "ok"
    /\ Len(hist) < MaxOps
    /\ \E item \in ItemsOf(ty) :
         \E r \in InsertOutcomes(kind, max, sel, item) :
            /\ sel' = r.sel
            /\ status' = r.status
            /\ hist' = Append(hist, Call("insert", item, Usize(0), r))
    /\ UNCHANGED <<kind, max, ty, ctor, out, iterRet>>

\* inc_push(delta)
IncPush ==
    /\ status = "ok"
    /\ HasIncPush(kind, max)
    /\ Len(hist) < MaxOps
    /\ \E delta \in Deltas :
         \E r \in IncPushed(sel, delta) :
            /\ sel' = r.sel
            /\ status' = r.status
            /\ hist' = Append(hist, Call("inc_push", NoItem, delta, r))
    /\ UNCHANGED <<kind, max, ty, ctor, out, iterRet>>

\* into_iter(): the selector is consumed, its heap moves into the iterator
IntoIter ==
    /\ status = "ok"
    /\ status' = "iter"
    /\ UNCHANGED <<kind, max, ty, ctor, sel, hist, out, iterRet>>

\* Iterator::next of SortedHeapIter[Max] / StableHeapIter[Max]
IterNext ==
    /\ status = "iter"
    /\ IF sel.heap = <<>>
       THEN /\ iterRet' = "None"
            /\ UNCHANGED <<sel, out>>
       ELSE LET p == HeapPop(OrdOf(kind, max), sel.heap)
            IN  /\ sel' = [sel EXCEPT !.heap = p.rest]
                /\ out' = Append(out, Payload(OrdOf(kind, max), p.item))
                /\ iterRet' = "Some"
    /\ UNCHANGED <<status, kind, max, ty, ctor, hist>>

Next == Insert \/ IncPush \/ IntoIter \/ IterNext

Spec == Init /\ [][Next]_vars

TypeOK ==
    /\ status \in {"ok", "panicked", "ub", "overflow", "iter"}
    /\ kind \in Kinds
    /\ ty \in TypesOf(kind)
    /\ max \in BOOLEAN
    /\ Len(hist) <= MaxOps


\* ------------------------------------------------- helpers of the claims
Min2(a, b) == IF a <= b THEN a ELSE b

\* the insert calls of a history, in order
InsertCalls(h) == SelectSeqBy(h, {c \in Range(h) : c.op = "insert"})

ValsOf(items) == [i \in 1..Len(items) |-> items[i].val]
InputItems(h) == [i \in 1..Len(InsertCalls(h)) |-> InsertCalls(h)[i].item]

\* a sequence of numbers sorted, ascending or (desc) descending
RECURSIVE InsertSorted(_, _, _)
InsertSorted(sorted, v, desc) ==
    IF sorted = <<>> THEN <<v>>
    ELSE IF (IF desc THEN v >= Head(sorted) ELSE v <= Head(sorted))
         THEN <<v>> \o sorted
         ELSE <<Head(sorted)>> \o InsertSorted(Tail(sorted), v, desc)

RECURSIVE SortVals(_, _)
SortVals(vs, desc) ==
    IF vs = <<>> THEN <<>>
    ELSE InsertSorted(SortVals(Tail(vs), desc), Head(vs), desc)

\* the first k of a sequence
FirstK(vs, k) == SubSeq(vs, 1, Min2(k, Len(vs)))

\* the payloads of the resident items, in heap order
Residents(k, s) == [i \in 1..Len(s.heap) |-> Payload(OrdOf(k, FALSE), s.heap[i])]

\* the greatest element of a non-empty heap under its order
Greatest(o, d) == CHOOSE e \in Range(d) : \A f \in Range(d) : Ge(o, e, f)

\* the whole drain of a heap: pop until empty, payloads in the order yielded
RECURSIVE DrainAll(_, _)
DrainAll(o, d) ==
    IF d = <<>> THEN <<>>
    ELSE LET p == HeapPop(o, d)
         IN  <<Payload(o, p.item)>> \o DrainAll(o, p.rest)

\* the outcome of a call that meets the same answers of the index and
\* the same build as the recorded call c
SameRun(x, c) == x.hit = c.hit /\ ((x.status = "overflow") <=> (c.ret = "panic"))

\* the calls of a history run again from selector s: the selector reached
\* and the values returned
RECURSIVE Replay(_, _, _, _)
Replay(k, mx, s, calls) ==
    IF calls = <<>> THEN [sel |-> s, rets |-> <<>>]
    ELSE LET c == Head(calls)
             r == IF c.op = "insert"
                  THEN CHOOSE x \in InsertOutcomes(k, mx, s, c.item) : SameRun(x, c)
                  ELSE CHOOSE x \in IncPushed(s, c.delta) : SameRun(x, c)
             rest == Replay(k, mx, r.sel, Tail(calls))
         IN  [sel |-> rest.sel, rets |-> <<r.ret>> \o rest.rets]

RetsOf(h) == [i \in 1..Len(h) |-> h[i].ret]

\* the order-inverting map on values
NegItem(i) == [i EXCEPT !.val = MaxVal + 1 - i.val]
NegCalls(h) ==
    [i \in 1..Len(h) |-> IF h[i].op = "insert"
                         THEN [h[i] EXCEPT !.item = NegItem(h[i].item)]
                         ELSE h[i]]
NegItems(items) == [i \in 1..Len(items) |-> NegItem(items[i])]

Usable == status \in {"ok", "iter"}

\* the step is an insert call that returned; its record is the last of hist'
InsertStep ==
    /\ status = "ok" /\ status' = "ok"
    /\ Len(hist') = Len(hist) + 1
    /\ hist'[Len(hist')].op = "insert"
LastCall == hist'[Len(hist')]

\* an item of the type whose equality and hash go by the key
KV(k, v) == [ty |-> "KV", key |-> k, val |-> v]

\* the items have a logical key: equality and hash agree on it
Keyed == ty = "KV"

\* no call of the history made the counter wrap
NoWrap(h) == \A i \in 1..Len(h) : ~h[i].wrapped

\* ------------------------------------------------------------------- C1
\* C1: for every kind of selector built with capacity K >= 1, after every
\* insert the number of resident items is at most K.
C1_LenAtMostCapacity ==
    (Usable /\ sel.capacity >= 1) => SelLen(sel) <= sel.capacity

\* a full unique selector in which a duplicate insert has replaced a
\* resident value and more inserts were made than the capacity
C1_Witness ==
    /\ status = "ok" /\ kind = "unique" /\ ~max /\ Keyed
    /\ sel.capacity >= 1 /\ SelLen(sel) = sel.capacity
    /\ Len(hist) > sel.capacity
    /\ \E i, j \in 1..Len(hist) :
          /\ i < j
          /\ hist[i].item.key = hist[j].item.key
          /\ hist[j].item.val < hist[i].item.val
          /\ hist[j].item \in Range(sel.heap)

\* ------------------------------------------------------------------- C2
\* C2: for the plain and the stable selectors with K >= 1, once the
\* selector is drained the multiset of the values yielded is the multiset
\* of the first K values of the sorted input (ascending for least-K,
\* descending for greatest-K), all of them when the input is shorter.
C2_DrainedAreKBest ==
    (status = "iter" /\ sel.heap = <<>> /\ ~IsUnique(kind) /\ sel.capacity >= 1)
        => SortVals(ValsOf(out), max)
             = FirstK(SortVals(ValsOf(InputItems(hist)), max), sel.capacity)

\* a drained selector that saw more items than its capacity, with a
\* repeated value among them
C2_Witness ==
    /\ status = "iter" /\ sel.heap = <<>> /\ ~IsUnique(kind)
    /\ Len(InputItems(hist)) > sel.capacity
    /\ Len(out) = sel.capacity /\ sel.capacity >= 2
    /\ \E i, j \in 1..Len(hist) : i < j /\ hist[i].item.val = hist[j].item.val

\* ------------------------------------------------------------------- C3
\* C3: insert into a least-K stable selector returns true and stores the
\* item when len() < K; when len() = K it returns false exactly when
\* boundary <= item, boundary being the greatest resident item under the
\* selector's order.
C3_InsertRule ==
    [][(InsertStep /\ kind = "stable" /\ ~max)
       => LET c == LastCall
              o == OrdOf(kind, max)
              new_item == HeapItem(c.item, sel'.total_pushed)
          IN  IF SelLen(sel) < sel.capacity
              THEN c.ret = "true" /\ new_item \in Range(sel'.heap)
                   /\ SelLen(sel') = SelLen(sel) + 1
              ELSE (c.ret = "false") <=> Le(o, Greatest(o, sel.heap), new_item)]_vars

\* K = 2 and three inserts of increasing value (the scenario 3, 5, 10):
\* true, true, false and the first two values resident
C3_Witness ==
    /\ status = "ok" /\ kind = "stable" /\ ~max /\ sel.capacity = 2
    /\ Len(hist) = 3
    /\ ValsOf(InputItems(hist)) = <<1, 2, 3>>
    /\ RetsOf(hist) = <<"true", "true", "false">>
    /\ {e.val : e \in Range(Residents(kind, sel))} = {1, 2}

\* ------------------------------------------------------------------- C4
\* C4: a greatest-K selector fed an input behaves step for step like the
\* least-K selector of the same kind fed the input under the inverted
\* order: same values returned, same len(), and the same drained sequence
\* once the inversion is undone.
C4_OrientationDuality ==
    (Usable /\ max /\ sel.capacity >= 1)
        => LET b == Construct(kind, ctor, sel.capacity)
               r == Replay(kind, FALSE, b.sel, NegCalls(hist))
           IN  /\ r.rets = RetsOf(hist)
               /\ (status = "ok" => SelLen(r.sel) = SelLen(sel))
               /\ out \o DrainAll(OrdOf(kind, TRUE), sel.heap)
                    = NegItems(DrainAll(OrdOf(kind, FALSE), r.sel.heap))

\* a greatest-K selector that has rejected an item and replaced one, now
\* drained in part
C4_Witness ==
    /\ status = "iter" /\ max /\ sel.capacity >= 2
    /\ Len(out) >= 1 /\ sel.heap # <<>>
    /\ \E i \in 1..Len(hist) : hist[i].ret = "false"
    /\ \E i \in 1..Len(hist) :
          hist[i].ret = "true" /\ i > sel.capacity

\* ------------------------------------------------------------------- C5
\* C5: construction with capacity 0 fails for every kind of selector and
\* every constructor: no usable selector has capacity 0.
C5_ZeroCapacityFails == sel.capacity = 0 => status = "panicked"


\* ------------------------------------------------------------------- C6
\* C6: capacity() returns the K passed at construction, right after
\* construction and after any sequence of inserts.
C6_CapacityIsK == status = "ok" => SelCapacity(kind, sel) = sel.capacity

\* ------------------------------------------------------------------- C7
\* C7: after n insert calls (and no inc_push) the counter total_pushed of a
\* selector that has one equals n: accepted, rejected and duplicate-key
\* inserts each add one.
C7_CounterCountsCalls ==
    (status = "ok" /\ kind # "plain" /\ InsertCalls(hist) = hist)
        => SelTotalPushed(sel) = Usize(Len(hist))

\* ------------------------------------------------------------------- C8
\* C8: in a unique or stable-unique selector of items with a logical key
\* no two resident items have equal logical keys.
C8_ResidentKeysDistinct ==
    (Usable /\ IsUnique(kind) /\ Keyed)
        => \A i, j \in 1..SelLen(sel) :
              i # j => ~EqT(Residents(kind, sel)[i], Residents(kind, sel)[j])

\* a unique selector holding two items, one of which came in by replacing
\* the resident value of its key
C8_Witness ==
    /\ status = "ok" /\ IsUnique(kind) /\ Keyed /\ SelLen(sel) >= 2
    /\ \E i, j \in 1..Len(hist) :
          /\ i < j
          /\ hist[i].op = "insert" /\ hist[j].op = "insert"
          /\ EqT(hist[i].item, hist[j].item)
          /\ hist[i].item # hist[j].item
          /\ \E n \in 1..SelLen(sel) : Residents(kind, sel)[n] = hist[j].item

\* ------------------------------------------------------------------- C9
\* C9: in a unique or stable-unique selector a key is in the membership
\* index if and only if an item with that key is resident.
C9_IndexMatchesHeap ==
    (status = "ok" /\ IsUnique(kind) /\ Keyed /\ sel.capacity >= 1)
        => {h.key : h \in sel.hash} = {e.key : e \in Range(Residents(kind, sel))}

\* ------------------------------------------------------------------ C10
\* the best value inserted for each key, as a sequence of values
BestPerKey(items, rev) ==
    LET ks == {items[i].key : i \in 1..Len(items)}
        best(k) == LET vs == {items[i].val : i \in {n \in 1..Len(items) : items[n].key = k}}
                   IN  CHOOSE v \in vs : \A w \in vs : IF rev THEN v >= w ELSE v <= w
    IN  {KV(k, best(k)) : k \in ks}

RECURSIVE SetToSeq(_)
SetToSeq(S) ==
    IF S = {} THEN <<>>
    ELSE LET x == CHOOSE y \in S : TRUE IN <<x>> \o SetToSeq(S \ {x})

\* C10: in a unique or stable-unique selector the resident items are the K
\* best-ranked among the best value inserted for each key: every resident
\* is the best item of its key, and the resident values are the first K of
\* the sorted best values.
C10_ResidentsAreKBestPerKey ==
    (status = "ok" /\ IsUnique(kind) /\ Keyed /\ sel.capacity >= 1)
        => LET best == BestPerKey(InputItems(hist), max)
           IN  /\ Range(Residents(kind, sel)) \subseteq best
               /\ SortVals(ValsOf(Residents(kind, sel)), max)
                    = FirstK(SortVals(ValsOf(SetToSeq(best)), max), sel.capacity)


\* ----------------------------------------------- helpers of C11 .. C20
\* the selector as the calls of hist leave it: the one into_iter consumes
AtDrain == Replay(kind, max, Construct(kind, ctor, sel.capacity).sel, hist).sel

\* the whole drain of a heap as stored elements (with their counters)
RECURSIVE DrainElems(_, _)
DrainElems(o, d) ==
    IF d = <<>> THEN <<>>
    ELSE LET p == HeapPop(o, d) IN <<p.item>> \o DrainElems(o, p.rest)

PayloadsOf(o, es) == [i \in 1..Len(es) |-> Payload(o, es[i])]

\* how often x occurs in a sequence
Count(x, q) == Cardinality({i \in 1..Len(q) : q[i] = x})
SameItems(q1, q2) == \A x \in Range(q1) \cup Range(q2) : Count(x, q1) = Count(x, q2)

\* the resident element with the key of item, if any
ResidentsWithKey(k, s, item) ==
    {e \in Range(s.heap) : EqT(Payload(OrdOf(k, FALSE), e), item)}

\* ------------------------------------------------------------------ C11
\* C11: when a stable selector is full and the inserted item compares
\* equal in base order to the boundary item (the resident evicted next),
\* the insert returns false and the residents stay as they are.
C11_TieAtBoundaryRejected ==
    [][(InsertStep /\ kind = "stable" /\ SelLen(sel) = sel.capacity
        /\ BaseCmp(max, LastCall.item, HeapPeek(sel.heap).inner) = 0)
       => (LastCall.ret = "false" /\ sel'.heap = sel.heap)]_vars

\* ------------------------------------------------------------------ C12
\* total_pushed of a stable selector after the calls h[1..n]
RECURSIVE StableTotal(_, _)
StableTotal(h, n) ==
    IF n = 0 THEN Usize(0)
    ELSE WrappingAdd(StableTotal(h, n - 1),
                     IF h[n].op = "insert" THEN Usize(1) ELSE h[n].delta)

\* element e of a stable selector was stored by call n of h
StoredBy(h, n, e) ==
    h[n].op = "insert" /\ h[n].item = e.inner /\ StableTotal(h, n) = e.counter

\* C12: as long as the counter has not wrapped, the drain of a stable
\* selector is ordered by base priority, greatest first under the
\* selector's order, and two drained items of equal base priority come in
\* the order of their sequence numbers, smaller first, which for the
\* stable selector is the order of the insert calls that stored them; the
\* iterator yields the payloads in exactly that order.
C12_StableDrainOrder ==
    (Usable /\ IsStable(kind) /\ sel.capacity >= 1 /\ NoWrap(hist))
        => LET o == OrdOf(kind, max)
               es == DrainElems(o, AtDrain.heap)
           IN  /\ out \o DrainAll(o, sel.heap) = PayloadsOf(o, es)
               /\ \A i, j \in 1..Len(es) :
                     i < j =>
                       LET c == BaseCmp(max, es[i].inner, es[j].inner)
                       IN  c > 0 \/ (c = 0 /\ CmpUsize(es[i].counter, es[j].counter) < 0)
               /\ kind = "stable" =>
                     \A i, j \in 1..Len(es) :
                        (i < j /\ BaseCmp(max, es[i].inner, es[j].inner) = 0)
                           => \E a, b \in 1..Len(hist) :
                                 /\ a < b
                                 /\ StoredBy(hist, a, es[i])
                                 /\ StoredBy(hist, b, es[j])

\* a least-K stable selector drained to the end: priorities 3, 2, 2 came
\* in under keys 1, 2, 1 and are yielded greatest first, the two of
\* priority 2 in the order of their arrival
C12_Witness ==
    /\ status = "iter" /\ kind = "stable" /\ ~max /\ sel.heap = <<>>
    /\ InputItems(hist) = <<KV(1, 3), KV(2, 2), KV(1, 2)>>
    /\ out = InputItems(hist)

\* ------------------------------------------------------------------ C13
\* C13: in a unique selector of items with a logical key an insert of an
\* item whose key is resident returns false, whether or not it replaces
\* the resident value, and an insert returns true only when the key was
\* not resident before the call and is resident after it.
C13_DuplicateReturnsFalse ==
    [][(InsertStep /\ IsUnique(kind) /\ Keyed /\ sel.capacity >= 1)
       => LET item == LastCall.item
              before == ResidentsWithKey(kind, sel, item) # {}
              after == ResidentsWithKey(kind, sel', item) # {}
          IN  /\ before => LastCall.ret = "false"
              /\ LastCall.ret = "true" => (~before /\ after)]_vars

\* the last call replaced the resident value of its key by a better one
\* and returned false; the first call, of the same key, had returned true
C13_Witness ==
    /\ status = "ok" /\ IsUnique(kind) /\ Keyed /\ ~max /\ Len(hist) >= 2
    /\ hist[1].op = "insert" /\ hist[1].ret = "true"
    /\ hist[Len(hist)].op = "insert" /\ hist[Len(hist)].ret = "false"
    /\ EqT(hist[1].item, hist[Len(hist)].item)
    /\ hist[Len(hist)].item.val < hist[1].item.val
    /\ hist[Len(hist)].item \in Range(Residents(kind, sel))

\* ------------------------------------------------------------------ C14
\* C14: in a unique selector an insert of an item whose key is resident
\* and whose value is strictly better than the resident one leaves one
\* resident of that key, holding the new value; len is unchanged and the
\* residents of every other key are unchanged.
C14_BetterDuplicateReplaces ==
    [][(InsertStep /\ IsUnique(kind) /\ sel.capacity >= 1
        /\ \E e \in ResidentsWithKey(kind, sel, LastCall.item) :
              Lt(Ord(FALSE, max), LastCall.item, Payload(OrdOf(kind, FALSE), e)))
       => LET item == LastCall.item
              o == OrdOf(kind, FALSE)
          IN  /\ {Payload(o, e) : e \in ResidentsWithKey(kind, sel', item)} = {item}
              /\ Count(item, Residents(kind, sel')) = 1
              /\ SelLen(sel') = SelLen(sel)
              /\ \A e \in Range(sel.heap) \cup Range(sel'.heap) :
                    ~EqT(Payload(o, e), item)
                        => Count(e, sel'.heap) = Count(e, sel.heap)]_vars

\* a greatest-K unique selector with two residents in which the last call
\* raised the value of one key and left the other resident as it was
C14_Witness ==
    /\ status = "ok" /\ IsUnique(kind) /\ max /\ SelLen(sel) = 2
    /\ Len(hist) = 3
    /\ \A i \in 1..3 : hist[i].op = "insert"
    /\ EqT(hist[1].item, hist[3].item) /\ ~EqT(hist[1].item, hist[2].item)
    /\ hist[3].item.val > hist[1].item.val
    /\ Range(Residents(kind, sel)) = {hist[2].item, hist[3].item}

\* ------------------------------------------------------------------ C15
\* total_pushed after the calls h[1..n] of a unique selector: one for
\* every insert of a key not inserted before, delta for every inc_push
RECURSIVE PushedAfter(_, _)
PushedAfter(h, n) ==
    IF n = 0 THEN Usize(0)
    ELSE WrappingAdd(PushedAfter(h, n - 1),
                     IF h[n].op = "inc_push" THEN h[n].delta
                     ELSE IF \E i \in 1..(n - 1) :
                                h[i].op = "insert" /\ EqT(h[i].item, h[n].item)
                          THEN Usize(0) ELSE Usize(1))

\* the position in h of the first insert of the key of item
FirstArrival(h, item) ==
    CHOOSE n \in 1..Len(h) :
        /\ h[n].op = "insert" /\ EqT(h[n].item, item)
        /\ \A i \in 1..(n - 1) : ~(h[i].op = "insert" /\ EqT(h[i].item, item))

\* C15: every resident of a stable-unique selector of items with a
\* logical key, replaced by duplicate inserts or not, carries the sequence
\* number its key got at its first insertion, and, as long as the counter
\* has not wrapped, residents of equal priority are drained in the order
\* of the first arrivals of their keys.
C15_ReplacementKeepsSequenceNumber ==
    (Usable /\ kind = "stable_unique" /\ Keyed /\ sel.capacity >= 1)
        => LET o == OrdOf(kind, max)
               es == DrainElems(o, AtDrain.heap)
           IN  /\ \A e \in Range(es) :
                     e.counter = PushedAfter(hist, FirstArrival(hist, e.inner))
               /\ NoWrap(hist) =>
                     \A i, j \in 1..Len(es) :
                        (i < j /\ BaseCmp(max, es[i].inner, es[j].inner) = 0)
                           => FirstArrival(hist, es[i].inner)
                                 < FirstArrival(hist, es[j].inner)

\* keys 1 and 2 arrive with priorities 3 and 2, then key 1 is updated to
\* priority 2: the drain yields the updated key 1 before key 2
C15_Witness ==
    /\ status = "iter" /\ kind = "stable_unique" /\ ~max /\ sel.heap = <<>>
    /\ InputItems(hist) = <<KV(1, 3), KV(2, 2), KV(1, 2)>>
    /\ out = <<KV(1, 2), KV(2, 2)>>

\* ------------------------------------------------------------------ C16
\* C16: in a unique selector of items with a logical key an insert of an
\* item whose key is resident and whose value is equal to or worse than
\* the resident one changes nothing: the heap with its sequence numbers,
\* the index, the counter and so len and every later drain are as they
\* were before the call.
C16_WorseDuplicateIsNoOp ==
    [][(InsertStep /\ IsUnique(kind) /\ Keyed /\ sel.capacity >= 1
        /\ ResidentsWithKey(kind, sel, LastCall.item) # {}
        /\ \A e \in ResidentsWithKey(kind, sel, LastCall.item) :
              ~Lt(Ord(FALSE, max), LastCall.item, Payload(OrdOf(kind, FALSE), e)))
       => (sel' = sel /\ LastCall.ret = "false")]_vars

\* two keys inserted, then the first key again with a worse value and
\* with an equal value: drained, the output is that of the first two calls
C16_Witness ==
    /\ status = "iter" /\ IsUnique(kind) /\ ~max /\ sel.heap = <<>>
    /\ InputItems(hist) = <<KV(1, 2), KV(2, 2), KV(1, 3), KV(1, 2)>>
    /\ Len(out) = 2
    /\ Range(out) = {KV(1, 2), KV(2, 2)}

\* ------------------------------------------------------------------ C17
\* the calls of h are inserts of one key with strictly improving values
OneKeyImproving(h, mx) ==
    /\ h # <<>>
    /\ \A i \in 1..Len(h) : h[i].op = "insert" /\ EqT(h[i].item, h[1].item)
    /\ \A i \in 1..(Len(h) - 1) : Lt(Ord(FALSE, mx), h[i + 1].item, h[i].item)

\* C17: after N >= 1 inserts of one key with a strictly improving value
\* sequence a unique selector holds exactly one entry, and it is the last
\* item inserted.
C17_ImprovingKeyLeavesBest ==
    (Usable /\ IsUnique(kind) /\ sel.capacity >= 1 /\ OneKeyImproving(hist, max))
        => Residents(kind, AtDrain) = <<hist[Len(hist)].item>>

\* three inserts of one key with values 3, 2, 1 into a least-K selector
C17_Witness ==
    /\ status = "ok" /\ IsUnique(kind) /\ ~max
    /\ OneKeyImproving(hist, max) /\ Len(hist) = 3
    /\ Residents(kind, sel) = <<hist[3].item>>

\* ------------------------------------------------------------------ C18
\* C18: in a unique selector of items with a logical key no insert that
\* returns true is preceded by an insert of the same key, so at most one
\* insert per key returns true.
C18_TrueOnlyOnFirstOccurrence ==
    (Usable /\ IsUnique(kind) /\ Keyed /\ sel.capacity >= 1)
        => /\ \A i, j \in 1..Len(hist) :
                 (i < j /\ hist[i].op = "insert" /\ hist[j].op = "insert"
                  /\ EqT(hist[i].item, hist[j].item))
                     => hist[j].ret # "true"
           /\ \A k \in Keys :
                 Cardinality({i \in 1..Len(hist) :
                                 /\ hist[i].op = "insert"
                                 /\ hist[i].item.key = k
                                 /\ hist[i].ret = "true"}) <= 1

\* a key was inserted (true), evicted by a better key, and inserted again
\* with a value better than every resident: the last call returned false
C18_Witness ==
    /\ status = "ok" /\ kind = "unique" /\ Keyed /\ ~max /\ sel.capacity = 1
    /\ Len(hist) = 3
    /\ hist[1].op = "insert" /\ hist[1].ret = "true"
    /\ hist[2].op = "insert" /\ hist[2].ret = "true"
    /\ hist[3].op = "insert" /\ hist[3].ret = "false"
    /\ EqT(hist[1].item, hist[3].item) /\ ~EqT(hist[1].item, hist[2].item)
    /\ hist[3].item.val < hist[2].item.val

\* ------------------------------------------------------------------ C19
\* C19: the drain of a selector holding n items yields exactly those n
\* items, each once, greatest first in the internal order (for a Max
\* selector: least first in the natural order); its length is n.
C19_DrainYieldsResidentsInOrder ==
    (status = "iter" /\ sel.capacity >= 1)
        => LET o == OrdOf(kind, max)
               start == AtDrain
               n == SelLen(start)
               es == DrainElems(o, start.heap)
           IN  /\ SameItems(es, start.heap)
               /\ Len(es) = n
               /\ \A i, j \in 1..n : i < j => Ge(o, es[i], es[j])
               /\ max => \A i, j \in 1..Len(out) : i < j => out[i].val <= out[j].val
               /\ Len(out) <= n
               /\ out = PayloadsOf(o, SubSeq(es, 1, Len(out)))
               /\ SameItems(out \o Residents(kind, sel), Residents(kind, start))
               /\ sel.heap = <<>> => Len(out) = n

\* a greatest-K plain selector of three items, two of them equal in
\* priority, drained to the end: least priority first
C19_Witness ==
    /\ status = "iter" /\ kind = "plain" /\ max /\ sel.heap = <<>>
    /\ Len(out) = 3 /\ Len(hist) = 4
    /\ ValsOf(out) = <<2, 3, 3>>

\* ------------------------------------------------------------------ C20
\* C20: with n items resident when the drain starts, size_hint before each
\* call of next is the number of items still to come; each of the first n
\* calls yields an item and every later call yields nothing.
C20_DrainTerminates ==
    [][status = "iter"
       => LET n == SelLen(AtDrain)
          IN  /\ SizeHint(sel) = n - Len(out)
              /\ IF Len(out) < n
                 THEN /\ iterRet' = "Some"
                      /\ Len(out') = Len(out) + 1
                      /\ SizeHint(sel') = SizeHint(sel) - 1
                 ELSE /\ iterRet' = "None"
                      /\ out' = out /\ sel' = sel]_vars

\* a stable selector of two items after its third call of next
C20_Witness ==
    /\ status = "iter" /\ kind = "stable" /\ Len(out) = 2
    /\ sel.heap = <<>> /\ iterRet = "None" /\ SizeHint(sel) = 0

\* ----------------------------------------------- helpers of C21 .. C29
\* A stable selector without a heap layout: the residents are a set of
\* HeapItems, the boundary is the greatest of them in the composite order.
\* The calls h[1..n] with capacity K give the residents, the counter and
\* the values returned.
RECURSIVE LayoutFreeRun(_, _, _, _)
LayoutFreeRun(mx, K, h, n) ==
    IF n = 0 THEN [res |-> {}, pushed |-> Usize(0), rets |-> <<>>]
    ELSE LET p == LayoutFreeRun(mx, K, h, n - 1)
             c == h[n]
             o == Ord(TRUE, mx)
             next == WrappingAdd(p.pushed, Usize(1))
             e == HeapItem(c.item, next)
             b == CHOOSE x \in p.res : \A y \in p.res : Ge(o, x, y)
         IN  IF c.op = "inc_push"
             THEN [p EXCEPT !.pushed = WrappingAdd(@, c.delta),
                            !.rets = Append(@, "unit")]
             ELSE IF Cardinality(p.res) < K
             THEN [res |-> p.res \cup {e}, pushed |-> next,
                   rets |-> Append(p.rets, "true")]
             ELSE IF Le(o, b, e)
             THEN [p EXCEPT !.pushed = next, !.rets = Append(@, "false")]
             ELSE [res |-> (p.res \ {b}) \cup {e}, pushed |-> next,
                   rets |-> Append(p.rets, "true")]

\* a set of HeapItems as the sequence of payloads, greatest first
RECURSIVE LayoutFreeDrain(_, _)
LayoutFreeDrain(o, S) ==
    IF S = {} THEN <<>>
    ELSE LET g == CHOOSE x \in S : \A y \in S : Ge(o, x, y)
         IN  <<g.inner>> \o LayoutFreeDrain(o, S \ {g})

\* ------------------------------------------------------------------ C21
\* C21: as long as the counter has not wrapped, the values returned by
\* the inserts of a stable selector and its drained sequence are those of
\* the layout-free selector fed the same calls, and they are the same for
\* every constructor of that capacity: they depend on the input sequence
\* alone.
C21_StableDeterminism ==
    (Usable /\ kind = "stable" /\ NoWrap(hist))
        => LET o == OrdOf(kind, max)
               a == LayoutFreeRun(max, sel.capacity, hist, Len(hist))
               drained == out \o DrainAll(o, sel.heap)
           IN  /\ RetsOf(hist) = a.rets
               /\ drained = LayoutFreeDrain(o, a.res)
               /\ \A c \in Ctors(kind) :
                     LET r == Replay(kind, max, Construct(kind, c, sel.capacity).sel, hist)
                     IN  /\ r.rets = RetsOf(hist)
                         /\ DrainAll(o, r.sel.heap) = drained

\* a full stable selector of capacity 2 after four inserts, one of them
\* rejected and one replacing the boundary, drained to the end
C21_Witness ==
    /\ status = "iter" /\ kind = "stable" /\ sel.capacity = 2
    /\ sel.heap = <<>> /\ Len(out) = 2
    /\ RetsOf(hist) = <<"true", "true", "false", "true">>

\* ------------------------------------------------------------------ C22
\* C22: contains(x) is true exactly when an item equal to x is resident:
\* true for the item of an insert that has just been admitted, false for
\* an item to which no inserted item is equal and for one whose equals
\* were all rejected or evicted.
C22_ContainsIffResident ==
    (status = "ok" /\ kind # "plain" /\ sel.capacity >= 1)
        => /\ \A x \in ItemsOf(ty) :
                 SelContains(kind, sel, x)
                     <=> (\E r \in Range(Residents(kind, sel)) : EqT(r, x))
           /\ \A x \in ItemsOf(ty) :
                 (\A i \in 1..Len(hist) :
                     hist[i].op = "insert" => ~EqT(hist[i].item, x))
                     => ~SelContains(kind, sel, x)
           /\ (hist # <<>> /\ hist[Len(hist)].ret = "true")
                 => SelContains(kind, sel, hist[Len(hist)].item)

\* a unique selector of capacity 1: key 1 was admitted and then evicted
\* by key 2; contains is false for key 1 and true for key 2
C22_Witness ==
    /\ status = "ok" /\ kind = "unique" /\ Keyed /\ sel.capacity = 1
    /\ RetsOf(hist) = <<"true", "true">>
    /\ hist[1].item.key = 1 /\ hist[2].item.key = 2
    /\ ~SelContains(kind, sel, hist[1].item)
    /\ SelContains(kind, sel, hist[2].item)

\* ------------------------------------------------------------------ C23
\* C23: in a unique selector of capacity K the membership index holds at
\* most K entries.
C23_IndexAtMostCapacity ==
    (Usable /\ IsUnique(kind) /\ sel.capacity >= 1)
        => Cardinality(sel.hash) <= sel.capacity

\* ------------------------------------------------------------------ C24
\* C24: after every call, a selector built with new_allocated (any
\* reservation) and a selector built with new of the same capacity, fed
\* the same calls, agree on every observer: the values returned by insert,
\* len, is_empty, capacity, total_pushed, contains and the drained sequence.
C24_ReservationInvisible ==
    (status = "ok" /\ kind # "plain" /\ sel.capacity >= 1)
        => LET o == OrdOf(kind, max)
               plain_new == [name |-> "new", alloc_size |-> 0]
               r == Replay(kind, max, Construct(kind, plain_new, sel.capacity).sel, hist)
           IN  /\ r.rets = RetsOf(hist)
               /\ SelLen(r.sel) = SelLen(sel)
               /\ SelIsEmpty(r.sel) = SelIsEmpty(sel)
               /\ SelTotalPushed(r.sel) = SelTotalPushed(sel)
               /\ \A x \in Items : SelContains(kind, r.sel, x) = SelContains(kind, sel, x)
               /\ DrainAll(o, r.sel.heap) = DrainAll(o, sel.heap)
               /\ SelCapacity(kind, r.sel) = SelCapacity(kind, sel)

\* ------------------------------------------------------------------ C25
\* the heap after is the heap before with one greatest element taken out
\* and elt put in; every other element is there as often as before
BoundaryReplaced(o, before, after, elt) ==
    \E b \in Range(before) :
        /\ \A y \in Range(before) : Ge(o, b, y)
        /\ \A x \in Range(before) \cup Range(after) \cup {elt} :
              Count(x, after) = Count(x, before)
                                - (IF x = b THEN 1 ELSE 0) + (IF x = elt THEN 1 ELSE 0)

\* C25: an insert into a full plain or stable selector either rejects,
\* leaving the heap and len as they are and changing at most the attempts
\* counter, or accepts, taking out exactly one resident, the greatest in
\* the selector's order, and putting in the new item; every other
\* resident stays.
C25_FullInsertFrame ==
    [][(InsertStep /\ kind \in {"plain", "stable"} /\ SelLen(sel) = sel.capacity)
       => LET o == OrdOf(kind, max)
              elt == IF kind = "stable"
                     THEN HeapItem(LastCall.item, WrappingAdd(sel.total_pushed, Usize(1)))
                     ELSE LastCall.item
              rejected == IF kind = "stable" THEN LastCall.ret = "false"
                          ELSE ~Gt(o, Greatest(o, sel.heap), elt)
          IN  IF rejected
              THEN /\ sel'.heap = sel.heap
                   /\ SelLen(sel') = SelLen(sel)
                   /\ sel' = [sel EXCEPT !.total_pushed = sel'.total_pushed]
                   /\ kind = "plain" => sel' = sel
              ELSE /\ BoundaryReplaced(o, sel.heap, sel'.heap, elt)
                   /\ SelLen(sel') = SelLen(sel)
                   /\ sel' = [sel EXCEPT !.heap = sel'.heap,
                                         !.total_pushed = sel'.total_pushed]]_vars

\* a full stable selector of capacity 3 whose fourth insert replaced the
\* boundary by the new item
C25_Witness ==
    /\ status = "ok" /\ kind = "stable" /\ sel.capacity = 3 /\ SelLen(sel) = 3
    /\ Len(hist) = 4 /\ hist[4].op = "insert" /\ hist[4].ret = "true"
    /\ \E e \in Range(sel.heap) : e.inner = hist[4].item /\ e.counter = sel.total_pushed

\* ------------------------------------------------------------------ C26
\* C26: in a selector that was constructed successfully no insert reaches
\* the unchecked peek at the boundary with an empty heap.
C26_BoundaryAccessSafe == status # "ub"

\* ------------------------------------------------------------------ C27
\* C27: in stable and stable-unique selectors the sequence number given
\* to a newly stored item is greater than every number given before (an
\* element that is new in the heap either carries a number above the old
\* counter or is a duplicate replacement carrying the number of the
\* resident it replaces); in every reachable state the numbers of the
\* residents are pairwise distinct and no two residents compare equal in
\* the composite order.
C27_SequenceNumbersDistinct ==
    /\ []((Usable /\ IsStable(kind) /\ sel.capacity >= 1)
            => /\ \A e \in Range(sel.heap) :
                     /\ CmpUsize(Usize(1), e.counter) <= 0
                     /\ CmpUsize(e.counter, sel.total_pushed) <= 0
               /\ \A i, j \in 1..Len(sel.heap) :
                     i # j => /\ sel.heap[i].counter # sel.heap[j].counter
                              /\ Cmp(OrdOf(kind, max), sel.heap[i], sel.heap[j]) # 0)
    /\ [][(status = "ok" /\ IsStable(kind) /\ sel.capacity >= 1)
          => /\ CmpUsize(sel'.total_pushed, sel.total_pushed) >= 0
             /\ \A e \in Range(sel'.heap) \ Range(sel.heap) :
                   \/ CmpUsize(e.counter, sel.total_pushed) > 0
                   \/ \E f \in Range(sel.heap) :
                         EqT(f.inner, e.inner) /\ f.counter = e.counter]_vars

\* ------------------------------------------------------------------ C28
\* an item whose equality agrees with its order: a UniqueItem (both by
\* val), or an item whose key is its priority
Natural(x) == x.ty = "UniqueItem" \/ x.key = x.val

\* C28: when every item inserted into a unique selector is natural, an
\* insert of an item that the index holds finds no resident that is both
\* equal to it and strictly greater (the replacement path does not fire),
\* returns false and leaves the heap as it is.
C28_NaturalDuplicateNeverReplaces ==
    [][(InsertStep /\ IsUnique(kind) /\ sel.capacity >= 1
        /\ (\A i \in 1..Len(hist') : hist'[i].op = "insert" /\ Natural(hist'[i].item))
        /\ LastCall.hit = "hit")
       => /\ \A e \in Range(sel.heap) :
                ~BetterDuplicate(Ord(FALSE, max), Payload(OrdOf(kind, FALSE), e),
                                 LastCall.item)
          /\ sel'.heap = sel.heap
          /\ LastCall.ret = "false"]_vars

\* a unique selector of capacity 2 holding the natural items 1 and 2 after
\* item 1 was inserted a second time
C28_Witness ==
    /\ status = "ok" /\ IsUnique(kind) /\ sel.capacity = 2 /\ SelLen(sel) = 2
    /\ InputItems(hist) = <<KV(1, 1), KV(2, 2), KV(1, 1)>>
    /\ Len(hist) = 3 /\ hist[3].hit = "hit" /\ hist[3].ret = "false"

\* ------------------------------------------------------------------ C29
\* C29: in a unique selector of items with a logical key the index only
\* grows, and an insert of a key that was inserted before and is not
\* resident (rejected then, or evicted since) returns false and changes
\* nothing, whatever its value.
C29_LostKeyNeverReadmitted ==
    [][(InsertStep /\ IsUnique(kind) /\ Keyed /\ sel.capacity >= 1)
       => /\ sel.hash \subseteq sel'.hash
          /\ ((\E j \in 1..Len(hist) :
                  hist[j].op = "insert" /\ EqT(hist[j].item, LastCall.item))
              /\ ResidentsWithKey(kind, sel, LastCall.item) = {})
                => (LastCall.ret = "false" /\ sel' = sel)]_vars

\* capacity 1: key 1 came first, was evicted by a better key 2, and came
\* again with a value better than the resident: it was turned away
C29_Witness ==
    /\ status = "ok" /\ IsUnique(kind) /\ Keyed /\ ~max /\ sel.capacity = 1
    /\ Len(hist) = 3
    /\ RetsOf(hist) = <<"true", "true", "false">>
    /\ hist[1].item.key = 1 /\ hist[2].item.key = 2 /\ hist[3].item.key = 1
    /\ hist[3].item.val < hist[2].item.val
    /\ Residents(kind, sel) = <<hist[2].item>>

====
